---- MODULE Spec2Model ----
(***************************************************************************)
(* A model of outbreak_analyser.py: the script's top-level run (load,      *)
(* locate the outbreak centre, aggregate the population, print, plot) and  *)
(* its pure functions applied to arrays drawn from bounded sets.           *)
(*                                                                         *)
(* Representation.                                                         *)
(*  - A numpy array is a record [ndim, shape, data]; data is the list of   *)
(*    rows of a 2-d array, the list of values of a 1-d array and a list of *)
(*    one value for a 0-d array.                                           *)
(*  - Coordinates are whole metres.  A distance d is represented by its    *)
(*    square d*d, which is exact for whole coordinates; np.sqrt is         *)
(*    strictly increasing, so order, equality, argmax and max of distances *)
(*    are those of the squares.  Sq(300) stands for the distance 300.      *)
(*  - int(x) of a float truncates toward zero: Trunc(num, den).            *)
(*  - A function that can raise returns [exc, val]; exc = "" is a normal   *)
(*    return.                                                              *)
(***************************************************************************)
EXTENDS Integers, Sequences, FiniteSets, TLC

VARIABLES pc, files, case_locations, population_matrix, distance_matrix,
          outbreak_centre, max_distance, affected_population,
          total_population, percentage_affected, console, output, raised,
          narrower

vars == <<pc, files, case_locations, population_matrix, distance_matrix,
          outbreak_centre, max_distance, affected_population,
          total_population, percentage_affected, console, output, raised,
          narrower>>

---------------------------------------------------------------------------
(* Bounds of the model.                                                    *)

\* most case rows of a case array handed to the functions
MaxCases == 4
\* most case rows of case_locations.csv in a run of the script
MaxFileCases == 2
\* most cells along one axis of the population grid
MaxDim == 2
\* largest aggregation half-width tried, in cells
MaxRangeCells == 2

\* metres per grid cell
cell_size == 100

---------------------------------------------------------------------------
(* Arithmetic helpers.                                                     *)

Max2(a, b) == IF a >= b THEN a ELSE b

Min2(a, b) == IF a <= b THEN a ELSE b

Sq(d) == d * d

\* int(num / den) for den > 0: truncation toward zero
Trunc(num, den) == IF num >= 0 THEN num \div den ELSE -((-num) \div den)

RECURSIVE SumSeq(_)
SumSeq(s) == IF s = <<>> THEN 0 ELSE Head(s) + SumSeq(Tail(s))

RECURSIVE Concat(_)
Concat(ss) == IF ss = <<>> THEN <<>> ELSE Head(ss) \o Concat(Tail(ss))

---------------------------------------------------------------------------
(* numpy arrays.                                                           *)

NoArray == [ndim |-> -1, shape |-> <<>>, data |-> <<>>]

Array0(v) == [ndim |-> 0, shape |-> <<>>, data |-> <<v>>]

Array1(vals) == [ndim |-> 1, shape |-> <<Len(vals)>>, data |-> vals]

Array2(rows, ncols) == [ndim |-> 2, shape |-> <<Len(rows), ncols>>, data |-> rows]

Ok(v) == [exc |-> "", val |-> v]

Raise(e) == [exc |-> e, val |-> <<>>]

\* np.loadtxt's default ndmin=0: axes of length one are squeezed away, and
\* input without data rows gives an empty 1-d array
Squeeze(rows) ==
    IF Len(rows) = 0 THEN Array1(<<>>)
    ELSE IF Len(rows) = 1 /\ Len(rows[1]) = 1 THEN Array0(rows[1][1])
    ELSE IF Len(rows) = 1 THEN Array1(rows[1])
    ELSE IF Len(rows[1]) = 1 THEN Array1([k \in 1..Len(rows) |-> rows[k][1]])
    ELSE Array2(rows, Len(rows[1]))

\* np.loadtxt(path, skiprows, delimiter=','): a line that is not numeric is
\* a parse failure
loadtxt(lines, skiprows) ==
    LET body == SubSeq(lines, skiprows + 1, Len(lines))
    IN  IF \E k \in 1..Len(body) : ~body[k].numeric
        THEN Raise("ValueError")
        ELSE Ok(Squeeze([k \in 1..Len(body) |-> body[k].vals]))

\* a load_data that swallows the failure to open the file
load_data_swallow(file, skip_header) ==
    IF file.status # "ok"
    THEN Ok(Array1(<<>>))
    ELSE loadtxt(file.lines, IF skip_header THEN 1 ELSE 0)

load_data(file, skip_header) ==
    IF file.status = "missing" THEN Raise("FileNotFoundError")
    ELSE IF file.status = "unreadable" THEN Raise("PermissionError")
    ELSE loadtxt(file.lines, IF skip_header THEN 1 ELSE 0)

---------------------------------------------------------------------------
(* Distance matrix and outbreak centre.                                    *)

\* locations[:, c] for the 0-based column c of a 2-d array
Column(locations, c) ==
    [i \in 1..locations.shape[1] |-> locations.data[i][c + 1]]

calculate_distance_matrix(locations) ==
    IF locations.ndim < 2 \/ locations.shape[2] < 3
    THEN Raise("IndexError")
    ELSE LET n == locations.shape[1]
             x == Column(locations, 1)
             y == Column(locations, 2)
             x_diff == [i \in 1..n |-> [j \in 1..n |-> x[i] - x[j]]]
             y_diff == [i \in 1..n |-> [j \in 1..n |-> y[i] - y[j]]]
         IN  Ok(Array2([i \in 1..n |->
                          [j \in 1..n |-> Sq(x_diff[i][j]) + Sq(y_diff[i][j])]],
                       n))

\* the array flattened in row-major (C) order
Flatten(a) == Concat(a.data)

\* an argmax that keeps the last of several maxima
argmax_last(flat) ==
    (CHOOSE k \in 1..Len(flat) :
        /\ \A m \in 1..Len(flat) : flat[m] <= flat[k]
        /\ \A m \in (k + 1)..Len(flat) : flat[m] < flat[k]) - 1

\* np.argmax of a non-empty flattened array: the 0-based index of the first
\* occurrence of the maximum
argmax(flat) ==
    (CHOOSE k \in 1..Len(flat) :
        /\ \A m \in 1..Len(flat) : flat[m] <= flat[k]
        /\ \A m \in 1..(k - 1) : flat[m] < flat[k]) - 1

\* an unravel_index that reads the flat index in column-major order
unravel_index_colmajor(k, shape) == <<k % shape[2], k \div shape[2]>>

\* np.unravel_index(k, shape) of a 2-d shape: 0-based (row, column)
unravel_index(k, shape) == <<k \div shape[2], k % shape[2]>>

\* a slice that starts one column early: locations[i, 0:2]
row_slice_0_2(locations, i) ==
    <<locations.data[i + 1][1], locations.data[i + 1][2]>>

\* locations[i, 1:3] for the 0-based row i
row_slice_1_3(locations, i) ==
    <<locations.data[i + 1][2], locations.data[i + 1][3]>>

find_outbreak_centre(locations) ==
    LET dm == calculate_distance_matrix(locations)
    IN  IF dm.exc # "" THEN dm
        ELSE IF Len(Flatten(dm.val)) = 0 THEN Raise("ValueError")
        ELSE LET max_distance_index ==
                     unravel_index(argmax(Flatten(dm.val)), dm.val.shape)
             IN  Ok(row_slice_1_3(locations, max_distance_index[1]))

\* np.max(a): the largest entry; an empty array has none
np_max(a) ==
    LET flat == Flatten(a)
    IN  IF Len(flat) = 0 THEN Raise("ValueError")
        ELSE Ok(CHOOSE v \in {flat[k] : k \in 1..Len(flat)} :
                    \A m \in 1..Len(flat) : flat[m] <= v)

---------------------------------------------------------------------------
(* Affected population.                                                    *)

\* int(max_distance / cell_size): the whole number of cells in the distance
to_range(distance) ==
    CHOOSE r \in 0..(distance \div Sq(cell_size)) :
        Sq(r * cell_size) <= distance /\ distance < Sq((r + 1) * cell_size)

\* the 0-based indices a[start:stop] selects on an axis of length n: a
\* negative bound counts from the end of the axis, and both are clipped to
\* the axis
slice_indices(start, stop, n) ==
    LET norm(v) == IF v < 0 THEN Max2(v + n, 0) ELSE Min2(v, n)
    IN  {k \in 0..(n - 1) : norm(start) <= k /\ k < norm(stop)}

RECURSIVE SumCells(_, _)
SumCells(a, cells) ==
    IF cells = {} THEN 0
    ELSE LET c == CHOOSE c \in cells : TRUE
         IN  a.data[c[1] + 1][c[2] + 1] + SumCells(a, cells \ {c})

\* np.sum(a[start_i:end_i, start_j:end_j]) of a 2-d array
sum_slice(a, start_i, end_i, start_j, end_j) ==
    SumCells(a, slice_indices(start_i, end_i, a.shape[1])
                \X slice_indices(start_j, end_j, a.shape[2]))

\* np.sum(a) of a 2-d array
np_sum(a) == SumCells(a, (0..(a.shape[1] - 1)) \X (0..(a.shape[2] - 1)))

\* an aggregation that walks the window cell by cell without clamping it,
\* so that an index beyond an edge wraps around to the other side
find_affected_population_wrapping(population, centre, distance) ==
    IF population.ndim # 2 THEN Raise("ValueError")
    ELSE LET r == to_range(distance)
             ci == Trunc(centre[1], cell_size)
             cj == Trunc(centre[2], cell_size)
             walk == [i \in 1..(2 * r + 1) |-> [j \in 1..(2 * r + 1) |->
                        population.data[((ci - r + i - 1) % population.shape[1]) + 1]
                                       [((cj - r + j - 1) % population.shape[2]) + 1]]]
         IN  Ok(SumSeq(Concat(walk)))

find_affected_population(population, centre, distance) ==
    IF population.ndim # 2 THEN Raise("ValueError")
    ELSE LET east_west_cells == population.shape[1]
             north_south_cells == population.shape[2]
             east_west_range == to_range(distance)
             north_south_range == to_range(distance)
             start_i == Max2(0, Trunc(centre[1] - east_west_range * cell_size,
                                      cell_size))
             end_i == Min2(east_west_cells,
                           Trunc(centre[1] + (east_west_range + 1) * cell_size,
                                 cell_size))
             start_j == Max2(0, Trunc(centre[2] - north_south_range * cell_size,
                                      cell_size))
             end_j == Min2(north_south_cells,
                           Trunc(centre[2] + (north_south_range + 1) * cell_size,
                                 cell_size))
         IN  Ok(sum_slice(population, start_i, end_i, start_j, end_j))

---------------------------------------------------------------------------
(* Inputs.                                                                 *)

\* coordinates of the reported cases: the corners of a 300 x 400 rectangle,
\* whose sides and diagonals give distinct and tied maximal distances
CasePoints == {0, 300} \X {0, 400}

\* a case row: identifier, x, y; the identifier is the row number
CaseRows(n) ==
    {[k \in 1..n |-> <<k, p[k][1], p[k][2]>>] : p \in [1..n -> CasePoints]}

\* case arrays handed to the functions: n rows of three columns
CaseArrays == UNION {{Array2(rows, 3) : rows \in CaseRows(n)} : n \in 0..MaxCases}

\* population counts of a cell; every set of cells is the support of a grid
PopValues == {0, 1}

GridRows(r, c) == [1..r -> [1..c -> PopValues]]

\* population grids handed to the functions
Grids ==
    UNION {{Array2(rows, c) : rows \in GridRows(r, c)} : <<r, c>> \in (1..MaxDim) \X (1..MaxDim)}

\* coordinates of an outbreak centre along one axis: far and just below the
\* origin, on a cell boundary, inside a cell, and beyond the far edge
CentreCoords == {-250, -200, -50, 0, 50, 150, MaxDim * cell_size + 50}

Centres == CentreCoords \X CentreCoords

\* distances tried: whole and half cells, and just under one cell
Distances == {Sq(h * 50) : h \in 0..(2 * MaxRangeCells)} \cup {Sq(cell_size) - 1}

Line(vals) == [numeric |-> TRUE, vals |-> vals]

HeaderLine == [numeric |-> FALSE, vals |-> <<>>]

File(status, lines) == [status |-> status, lines |-> lines]

NoFile == File("missing", <<>>)

\* data/case_locations.csv: absent, unreadable, or a header and case rows
CaseFiles ==
    {NoFile, File("unreadable", <<>>)} \cup
    UNION {{File("ok", <<HeaderLine>> \o [k \in 1..n |-> Line(rows[k])]) :
               rows \in CaseRows(n)} : n \in 0..MaxFileCases}

\* data/population.csv: absent, unreadable, empty, or the rows of a grid
PopulationFiles ==
    {NoFile, File("unreadable", <<>>), File("ok", <<>>)} \cup
    {File("ok", [k \in 1..g.shape[1] |-> Line(g.data[k])]) : g \in Grids}

---------------------------------------------------------------------------
(* The run of the script: one action per top-level statement.              *)

Unset ==
    /\ case_locations = NoArray
    /\ population_matrix = NoArray
    /\ distance_matrix = NoArray
    /\ outbreak_centre = <<>>
    /\ max_distance = -1
    /\ affected_population = -1
    /\ total_population = -1
    /\ percentage_affected = <<>>
    /\ console = <<>>
    /\ output = {}
    /\ raised = ""
    /\ narrower = <<>>

Init ==
    /\ pc = "load_cases"
    /\ files \in [cases : CaseFiles, population : PopulationFiles]
    /\ Unset

\* an uncaught exception ends the run
Abort(exc) ==
    /\ pc' = "aborted"
    /\ raised' = exc

LoadCases ==
    /\ pc = "load_cases"
    /\ LET r == load_data(files.cases, TRUE)
       IN  IF r.exc # ""
           THEN Abort(r.exc) /\ UNCHANGED case_locations
           ELSE /\ case_locations' = r.val
                /\ pc' = "load_population"
                /\ UNCHANGED raised
    /\ UNCHANGED <<files, population_matrix, distance_matrix, outbreak_centre,
                   max_distance, affected_population, total_population,
                   percentage_affected, console, output, narrower>>

LoadPopulation ==
    /\ pc = "load_population"
    /\ LET r == load_data(files.population, FALSE)
       IN  IF r.exc # ""
           THEN Abort(r.exc) /\ UNCHANGED population_matrix
           ELSE /\ population_matrix' = r.val
                /\ pc' = "find_centre"
                /\ UNCHANGED raised
    /\ UNCHANGED <<files, case_locations, distance_matrix, outbreak_centre,
                   max_distance, affected_population, total_population,
                   percentage_affected, console, output, narrower>>

FindCentre ==
    /\ pc = "find_centre"
    /\ LET r == find_outbreak_centre(case_locations)
       IN  IF r.exc # ""
           THEN Abort(r.exc) /\ UNCHANGED outbreak_centre
           ELSE /\ outbreak_centre' = r.val
                /\ pc' = "print_centre"
                /\ UNCHANGED raised
    /\ UNCHANGED <<files, case_locations, population_matrix, distance_matrix,
                   max_distance, affected_population, total_population,
                   percentage_affected, console, output, narrower>>

PrintCentre ==
    /\ pc = "print_centre"
    /\ console' = Append(console, [label |-> "Outbreak Centre:", value |-> outbreak_centre])
    /\ pc' = "max_distance"
    /\ UNCHANGED <<files, case_locations, population_matrix, distance_matrix,
                   outbreak_centre, max_distance, affected_population,
                   total_population, percentage_affected, output, raised,
                   narrower>>

MaxDistance ==
    /\ pc = "max_distance"
    /\ LET dm == calculate_distance_matrix(case_locations)
           r == IF dm.exc # "" THEN dm ELSE np_max(dm.val)
       IN  IF r.exc # ""
           THEN Abort(r.exc) /\ UNCHANGED <<distance_matrix, max_distance>>
           ELSE /\ distance_matrix' = dm.val
                /\ max_distance' = r.val
                /\ pc' = "affected"
                /\ UNCHANGED raised
    /\ UNCHANGED <<files, case_locations, population_matrix, outbreak_centre,
                   affected_population, total_population, percentage_affected,
                   console, output, narrower>>

FindAffected ==
    /\ pc = "affected"
    /\ LET r == find_affected_population(population_matrix, outbreak_centre, max_distance)
       IN  IF r.exc # ""
           THEN Abort(r.exc) /\ UNCHANGED affected_population
           ELSE /\ affected_population' = r.val
                /\ pc' = "total"
                /\ UNCHANGED raised
    /\ UNCHANGED <<files, case_locations, population_matrix, distance_matrix,
                   outbreak_centre, max_distance, total_population,
                   percentage_affected, console, output, narrower>>

TotalPopulation ==
    /\ pc = "total"
    /\ total_population' = np_sum(population_matrix)
    /\ pc' = "percentage"
    /\ UNCHANGED <<files, case_locations, population_matrix, distance_matrix,
                   outbreak_centre, max_distance, affected_population,
                   percentage_affected, console, output, raised, narrower>>

\* the quotient is kept as the pair (100 * affected, total); a zero total
\* gives nan with a warning, not an exception
PercentageAffected ==
    /\ pc = "percentage"
    /\ percentage_affected' = <<100 * affected_population, total_population>>
    /\ pc' = "print_results"
    /\ UNCHANGED <<files, case_locations, population_matrix, distance_matrix,
                   outbreak_centre, max_distance, affected_population,
                   total_population, console, output, raised, narrower>>

PrintResults ==
    /\ pc = "print_results"
    /\ console' = console \o
          << [label |-> "Total Population: ~", value |-> <<total_population>>],
             [label |-> "Affected Population: ~", value |-> <<affected_population>>],
             [label |-> "Percentage Affected:", value |-> percentage_affected] >>
    /\ pc' = "plot"
    /\ UNCHANGED <<files, case_locations, population_matrix, distance_matrix,
                   outbreak_centre, max_distance, affected_population,
                   total_population, percentage_affected, output, raised,
                   narrower>>

\* plot_population(..., output_dir="output", fig_name="outbreak_plot.png"):
\* the directory is created and the figure saved in it
PlotPopulation ==
    /\ pc = "plot"
    /\ output' = output \cup {"output", "output/outbreak_plot.png"}
    /\ pc' = "done"
    /\ UNCHANGED <<files, case_locations, population_matrix, distance_matrix,
                   outbreak_centre, max_distance, affected_population,
                   total_population, percentage_affected, console, raised,
                   narrower>>

Next ==
    \/ LoadCases
    \/ LoadPopulation
    \/ FindCentre
    \/ PrintCentre
    \/ MaxDistance
    \/ FindAffected
    \/ TotalPopulation
    \/ PercentageAffected
    \/ PrintResults
    \/ PlotPopulation

Spec == Init /\ [][Next]_vars

---------------------------------------------------------------------------
(* find_outbreak_centre and the distance matrix applied to case arrays.    *)

InitCentre ==
    /\ pc = "matrix"
    /\ files = [cases |-> NoFile, population |-> NoFile]
    /\ case_locations \in CaseArrays
    /\ population_matrix = NoArray
    /\ distance_matrix = NoArray
    /\ outbreak_centre = <<>>
    /\ max_distance = -1
    /\ affected_population = -1
    /\ total_population = -1
    /\ percentage_affected = <<>>
    /\ console = <<>>
    /\ output = {}
    /\ raised = ""
    /\ narrower = <<>>

CallDistanceMatrix ==
    /\ pc = "matrix"
    /\ distance_matrix' = calculate_distance_matrix(case_locations).val
    /\ pc' = "centre"
    /\ UNCHANGED <<files, case_locations, population_matrix, outbreak_centre,
                   max_distance, affected_population, total_population,
                   percentage_affected, console, output, raised, narrower>>

CallFindCentre ==
    /\ pc = "centre"
    /\ LET r == find_outbreak_centre(case_locations)
       IN  IF r.exc # ""
           THEN /\ pc' = "centre_raised"
                /\ raised' = r.exc
                /\ UNCHANGED outbreak_centre
           ELSE /\ outbreak_centre' = r.val
                /\ pc' = "max"
                /\ UNCHANGED raised
    /\ UNCHANGED <<files, case_locations, population_matrix, distance_matrix,
                   max_distance, affected_population, total_population,
                   percentage_affected, console, output, narrower>>

CallMax ==
    /\ pc = "max"
    /\ max_distance' = np_max(distance_matrix).val
    /\ pc' = "centre_returned"
    /\ UNCHANGED <<files, case_locations, population_matrix, distance_matrix,
                   outbreak_centre, affected_population, total_population,
                   percentage_affected, console, output, raised, narrower>>

NextCentre == CallDistanceMatrix \/ CallFindCentre \/ CallMax

SpecCentre == InitCentre /\ [][NextCentre]_vars

---------------------------------------------------------------------------
(* find_affected_population applied to a grid, a centre and a distance,    *)
(* and then again to the same grid and centre with a larger distance.      *)

InitAffected ==
    /\ pc = "aggregate"
    /\ files = [cases |-> NoFile, population |-> NoFile]
    /\ case_locations = NoArray
    /\ population_matrix \in Grids
    /\ distance_matrix = NoArray
    /\ outbreak_centre \in Centres
    /\ max_distance \in Distances
    /\ affected_population = -1
    /\ total_population = -1
    /\ percentage_affected = <<>>
    /\ console = <<>>
    /\ output = {}
    /\ raised = ""
    /\ narrower = <<>>

CallAffected ==
    /\ pc = "aggregate"
    /\ LET r == find_affected_population(population_matrix, outbreak_centre, max_distance)
       IN  /\ affected_population' = r.val
           /\ raised' = r.exc
    /\ total_population' = np_sum(population_matrix)
    /\ pc' = "aggregated"
    /\ UNCHANGED <<files, case_locations, population_matrix, distance_matrix,
                   outbreak_centre, max_distance, percentage_affected, console,
                   output, narrower>>

\* the call repeated with a larger distance; narrower keeps the earlier
\* distance and result
CallWider ==
    /\ pc = "aggregated"
    /\ \E d \in Distances :
          /\ d > max_distance
          /\ max_distance' = d
          /\ LET r == find_affected_population(population_matrix, outbreak_centre, d)
             IN  /\ affected_population' = r.val
                 /\ raised' = r.exc
    /\ narrower' = <<max_distance, affected_population>>
    /\ pc' = "widened"
    /\ UNCHANGED <<files, case_locations, population_matrix, distance_matrix,
                   outbreak_centre, total_population, percentage_affected,
                   console, output>>

NextAffected == CallAffected \/ CallWider

SpecAffected == InitAffected /\ [][NextAffected]_vars

---------------------------------------------------------------------------
(* Properties of find_outbreak_centre, under SpecCentre.                   *)

NumCases == case_locations.shape[1]

\* the (x, y) of the 1-based case k of the input
CaseXY(k) == <<case_locations.data[k][2], case_locations.data[k][3]>>

CentreReturned == pc \in {"max", "centre_returned"}

\* the largest entry of the distance matrix held in the state
LargestEntry ==
    CHOOSE m \in {distance_matrix.data[i][j] : i \in 1..NumCases, j \in 1..NumCases} :
        \A i \in 1..NumCases, j \in 1..NumCases : distance_matrix.data[i][j] <= m

\* the smallest case index with some case at the largest distance from it
FirstMaxRow ==
    CHOOSE i \in 1..NumCases :
        /\ \E j \in 1..NumCases : distance_matrix.data[i][j] = LargestEntry
        /\ \A h \in 1..(i - 1) : \A j \in 1..NumCases :
              distance_matrix.data[h][j] # LargestEntry

\* C1: for every non-empty case array (one case, several cases, duplicates)
\* find_outbreak_centre returns, without raising, the (x, y) of one of the
\* input cases.
C1_CentreIsAnInputCase ==
    /\ (NumCases >= 1 => pc # "centre_raised")
    /\ (CentreReturned => \E k \in 1..NumCases : outbreak_centre = CaseXY(k))

\* a call on several cases, two of them at the same place
C1_Witness ==
    /\ pc = "centre_returned"
    /\ NumCases >= 3
    /\ \E i, j \in 1..NumCases : i # j /\ CaseXY(i) = CaseXY(j)
    /\ \E k \in 1..NumCases : outbreak_centre = CaseXY(k)

\* C2: the centre is the coordinate of the smallest case index i for which
\* some case j lies at the maximum pairwise distance from i, the row of the
\* first maximal entry of the matrix in row-major order, also under ties.
C2_CentreIsFirstMaxRow ==
    CentreReturned => outbreak_centre = CaseXY(FirstMaxRow)

\* two different pairs of cases at the maximum distance, none of them
\* holding the first case
C2_Witness ==
    /\ pc = "centre_returned"
    /\ FirstMaxRow >= 2
    /\ LargestEntry > 0
    /\ Cardinality({q \in (1..NumCases) \X (1..NumCases) :
                      q[1] < q[2] /\ distance_matrix.data[q[1]][q[2]] = LargestEntry}) >= 2
    /\ outbreak_centre = CaseXY(FirstMaxRow)

\* the cases (0,0), (300,0), (0,400) in some order
ThreeCaseScenario ==
    /\ NumCases = 3
    /\ {CaseXY(k) : k \in 1..3} = {<<0, 0>>, <<300, 0>>, <<0, 400>>}

\* the distances between different cases are 300, 400 and 500, and the
\* largest entry of the matrix is 500
ScenarioDistances ==
    /\ {distance_matrix.data[q[1]][q[2]] : q \in {r \in (1..3) \X (1..3) : r[1] # r[2]}}
         = {Sq(300), Sq(400), Sq(500)}
    /\ max_distance = Sq(500)

\* the 1-based index of the case at point p in the scenario
ScenarioIndex(p) == CHOOSE k \in 1..3 : CaseXY(k) = p

\* C3 as stated: in the three-case scenario the distances are 300, 400 and
\* 500, MaxDistance is 500 and the centre is (0,400) or (0,0).
C3_AsStated ==
    (pc = "centre_returned" /\ ThreeCaseScenario) =>
        /\ ScenarioDistances
        /\ outbreak_centre \in {<<0, 400>>, <<0, 0>>}

\* C3 amended: in the three-case scenario the distances are 300, 400 and
\* 500, MaxDistance is 500 and the centre is an endpoint of the 500 pair,
\* (300,0) or (0,400): the one that comes first in the input; never (0,0).
C3_CentreIsFirstEndpointOfLongestPair ==
    (pc = "centre_returned" /\ ThreeCaseScenario) =>
        /\ ScenarioDistances
        /\ outbreak_centre =
             IF ScenarioIndex(<<300, 0>>) < ScenarioIndex(<<0, 400>>)
             THEN <<300, 0>> ELSE <<0, 400>>

\* the scenario in the order the specification lists it: the centre is
\* (300,0)
C3_Witness ==
    /\ pc = "centre_returned"
    /\ NumCases = 3
    /\ <<CaseXY(1), CaseXY(2), CaseXY(3)>> = << <<0, 0>>, <<300, 0>>, <<0, 400>> >>
    /\ max_distance = Sq(500)
    /\ outbreak_centre = <<300, 0>>

---------------------------------------------------------------------------
(* Properties of find_affected_population, under SpecAffected.             *)

Aggregated == pc \in {"aggregated", "widened"}

\* the cell of the centre along an axis, truncated toward zero
CentreCell(axis) == Trunc(outbreak_centre[axis], cell_size)

\* the 0-based cells of the window [centre_cell - range, centre_cell + range]
\* that lie on the axis
WindowOnAxis(axis) ==
    {k \in 0..(population_matrix.shape[axis] - 1) :
        /\ CentreCell(axis) - to_range(max_distance) <= k
        /\ k <= CentreCell(axis) + to_range(max_distance)}

\* C4: with non-negative grid entries, for every centre and distance the
\* affected population is at most the sum of the whole grid.
C4_AffectedAtMostTotal ==
    Aggregated =>
        /\ raised = ""
        /\ affected_population <= total_population

\* a centre below the origin with part of the grid, not all of it, counted
C4_Witness ==
    /\ pc = "aggregated"
    /\ outbreak_centre[1] < 0
    /\ 0 < affected_population
    /\ affected_population < total_population

\* C5: with the grid and the centre fixed, the result for a distance is at
\* most the result for any larger distance.
C5_MonotoneInDistance ==
    pc = "widened" => narrower[2] <= affected_population

\* C6: when the centre lies outside the grid, in particular below the
\* origin, and the window around it reaches no cell of the grid, the result
\* is 0 and nothing is raised.
C6_ZeroOutsideGrid ==
    (Aggregated /\ \E axis \in {1, 2} :
         /\ outbreak_centre[axis] < 0 \/ CentreCell(axis) >= population_matrix.shape[axis]
         /\ WindowOnAxis(axis) = {}
         /\ outbreak_centre[axis] + to_range(max_distance) * cell_size < 0
              \/ outbreak_centre[axis] - to_range(max_distance) * cell_size
                   >= population_matrix.shape[axis] * cell_size)
    => (raised = "" /\ affected_population = 0)

\* C7: the result is the sum of exactly the cells of the window
\* [centre_cell - range, centre_cell + range] on both axes that lie in the
\* grid, centre_cell being the centre divided by 100 and truncated toward
\* zero.
C7_SumsExactlyTheWindow ==
    Aggregated =>
        affected_population =
            SumCells(population_matrix, WindowOnAxis(1) \X WindowOnAxis(2))

---------------------------------------------------------------------------
(* Properties of the run of the script, under Spec.                        *)

BothFilesReadable ==
    files.cases.status = "ok" /\ files.population.status = "ok"

\* the case rows of case_locations.csv, the header line aside
FileCases == Len(files.cases.lines) - 1

\* the statements after the maximum distance has been taken, and the end of
\* a run by an exception
PastMaxDistance ==
    pc \in {"affected", "total", "percentage", "print_results", "plot", "done", "aborted"}

\* C8: with a single case the run yields a 1x1 zero distance matrix,
\* MaxDistance 0 and that case's coordinate as the centre.
C8_SingleCaseRun ==
    (BothFilesReadable /\ FileCases = 1 /\ PastMaxDistance) =>
        /\ distance_matrix = Array2(<< <<0>> >>, 1)
        /\ max_distance = 0
        /\ outbreak_centre = <<files.cases.lines[2].vals[2], files.cases.lines[2].vals[3]>>

\* C9: when either input file is missing or unreadable the run ends at the
\* load; a console line or an output file exists only after both loads
\* have succeeded.
C9_NoOutputBeforeBothLoads ==
    /\ (console # <<>> \/ output # {}) =>
           /\ BothFilesReadable
           /\ case_locations # NoArray
           /\ population_matrix # NoArray
    /\ ~BothFilesReadable => pc \in {"load_cases", "load_population", "aborted"}

\* the case file loads, the population file is missing: the run has ended
\* with nothing printed or written
C9_Witness ==
    /\ pc = "aborted"
    /\ files.cases.status = "ok"
    /\ case_locations # NoArray
    /\ files.population.status = "missing"
    /\ raised = "FileNotFoundError"
    /\ console = <<>>
    /\ output = {}

\* C10: with no case, with one case, or with an empty population grid, no
\* stage of the run ends in an error.
C10_DegenerateInputCompletes ==
    (BothFilesReadable /\ (FileCases <= 1 \/ files.population.lines = <<>>))
    => pc # "aborted"

====
